---- MODULE Spec2Model ----
(***************************************************************************)
(* Model of serviceUtilities (src/util.go, the later revision, lines       *)
(* 287-639): the platform-scoped progress records of one MongoDB users     *)
(* collection and the five store operations GetLastContest,                *)
(* GetLastSubmission, FindContestsandSubmissionsFromDB, AppendContestData   *)
(* and AppendSubmissionData, called concurrently by several goroutines of  *)
(* one hosting process.                                                    *)
(*                                                                         *)
(* A call is two steps: the caller builds its filter and projection or     *)
(* update document and hands them to the driver (Call...), and the store   *)
(* executes the request atomically on the document, after which the rest   *)
(* of the function body runs on the answer (Return...).  Platform names    *)
(* are sequences of one-letter strings, so that strings.ToLower and the    *)
(* exact-match reflect.FieldByName are computed letter by letter.          *)
(*                                                                         *)
(* Specifications: Spec (concurrent callers), SpecSeq (one caller, the     *)
(* larger inputs), SpecWait (a store that may stop answering, with weak    *)
(* fairness of the steps that end a call), SpecLife (the handle from       *)
(* OpenDatabaseConnection to CloseDatabaseConnection) and SpecFmt (the     *)
(* response formatters, with strconv.ParseFloat computed character by      *)
(* character).                                                             *)
(***************************************************************************)
EXTENDS Integers, Sequences, FiniteSets, TLC

VARIABLES
    db,        \* the users collection: email -> persisted user document
    call,      \* per caller: the operation in progress or last finished
    alive,     \* FALSE once log.Fatalf has ended the hosting process
    ctxDone,   \* TRUE once the deadline of dbResources.ctx has passed
    ncalls,    \* number of calls started so far
    storeSilent, \* TRUE once the store has stopped answering requests
    conn,      \* the client and context of OpenDatabaseConnection
    grpc       \* the call of a response formatter: input, position, output

vars == <<db, call, alive, ctxDone, ncalls, storeSilent, conn, grpc>>

\* What the store operations leave alone.
others == <<storeSilent, conn, grpc>>

\* Bounds: the number of calls started in one behaviour, by the concurrent
\* callers of Spec and by the single caller of SpecSeq.
MaxCalls == 2
MaxSeqCalls == 3

\* The goroutines that call into the package concurrently.
Callers == {"w1", "w2"}

----------------------------------------------------------------------------
(* strings.ToLower, letter by letter *)

UpperLetters == <<"A","B","C","D","E","F","G","H","I","J","K","L","M",
                  "N","O","P","Q","R","S","T","U","V","W","X","Y","Z">>
LowerLetters == <<"a","b","c","d","e","f","g","h","i","j","k","l","m",
                  "n","o","p","q","r","s","t","u","v","w","x","y","z">>

ToLowerLetter(ch) ==
    IF \E i \in 1..Len(UpperLetters) : UpperLetters[i] = ch
    THEN LowerLetters[CHOOSE i \in 1..Len(UpperLetters) : UpperLetters[i] = ch]
    ELSE ch

ToLower(s) == [i \in 1..Len(s) |-> ToLowerLetter(s[i])]

----------------------------------------------------------------------------
(* The record types *)

\* The fields of struct Platforms, by their Go names.
Leetcode    == <<"L","e","e","t","c","o","d","e">>
Codeforces  == <<"C","o","d","e","f","o","r","c","e","s">>
Codechef    == <<"C","o","d","e","c","h","e","f">>
Cpoj        == <<"C","p","o","j">>
Hackerearth == <<"H","a","c","k","e","r","e","a","r","t","h">>
Atcoder     == <<"A","t","c","o","d","e","r">>

Platforms == {Leetcode, Codeforces, Codechef, Cpoj, Hackerearth, Atcoder}

\* ContestData{} and SubmissionData{}: every field at its zero value.
ContestData ==
    [ContestName |-> "", ContestDate |-> "", Rank |-> 0, Rating |-> 0,
     Solved |-> 0, ContestID |-> ""]

SubmissionData ==
    [ProblemUrl |-> "", ProblemName |-> "", SubmissionDate |-> "",
     SubmissionLanguage |-> "", SubmissionStatus |-> "", CodeUrl |-> ""]

\* PlatformDataModel{}: nil slices have length 0.
PlatformDataModel ==
    [Handle |-> "", TotalSolved |-> 0, Ranking |-> 0,
     Contests |-> <<>>, Submissions |-> <<>>]

----------------------------------------------------------------------------
(* BSON encoding of the records.  The structs carry no bson tags, so the   *)
(* driver's struct codec writes every field under its lower-cased name and *)
(* reads it back from the element of that name.                            *)

MarshalContest(c) ==
    [contestname |-> c.ContestName, contestdate |-> c.ContestDate,
     rank |-> c.Rank, rating |-> c.Rating, solved |-> c.Solved,
     contestid |-> c.ContestID]

UnmarshalContest(d) ==
    [ContestName |-> d.contestname, ContestDate |-> d.contestdate,
     Rank |-> d.rank, Rating |-> d.rating, Solved |-> d.solved,
     ContestID |-> d.contestid]

MarshalSubmission(s) ==
    [problemurl |-> s.ProblemUrl, problemname |-> s.ProblemName,
     submissiondate |-> s.SubmissionDate,
     submissionlanguage |-> s.SubmissionLanguage,
     submissionstatus |-> s.SubmissionStatus, codeurl |-> s.CodeUrl]

UnmarshalSubmission(d) ==
    [ProblemUrl |-> d.problemurl, ProblemName |-> d.problemname,
     SubmissionDate |-> d.submissiondate,
     SubmissionLanguage |-> d.submissionlanguage,
     SubmissionStatus |-> d.submissionstatus, CodeUrl |-> d.codeurl]

\* A Go slice argument: nil, or a (possibly empty) sequence of elements.
\* The slice codec writes a nil slice as BSON null and any other slice as
\* an array.
NilSlice == [isNil |-> TRUE, elems |-> <<>>]
Slice(elems) == [isNil |-> FALSE, elems |-> elems]

MarshalContests(slice) ==
    [isNull |-> slice.isNil,
     array  |-> [i \in 1..Len(slice.elems) |-> MarshalContest(slice.elems[i])]]

MarshalSubmissions(slice) ==
    [isNull |-> slice.isNil,
     array  |-> [i \in 1..Len(slice.elems) |-> MarshalSubmission(slice.elems[i])]]

\* The element of platformData that the struct codec decodes into field f
\* of Platforms: the one named by the field's lower-cased name, looked up
\* by the element's name and then by the element's name in lower case.
MatchingKeys(platformData, f) ==
    {k \in DOMAIN platformData : k = ToLower(f) \/ ToLower(k) = ToLower(f)}

UnmarshalPlatform(platformData, f) ==
    IF MatchingKeys(platformData, f) = {}
    THEN PlatformDataModel
    ELSE LET sub == platformData[CHOOSE k \in MatchingKeys(platformData, f) : TRUE]
         IN  [Handle      |-> IF "handle" \in DOMAIN sub THEN sub["handle"] ELSE "",
              TotalSolved |-> IF "totalsolved" \in DOMAIN sub THEN sub["totalsolved"] ELSE 0,
              Ranking     |-> IF "ranking" \in DOMAIN sub THEN sub["ranking"] ELSE 0,
              Contests    |-> IF "contests" \in DOMAIN sub
                              THEN [i \in 1..Len(sub["contests"]) |->
                                        UnmarshalContest(sub["contests"][i])]
                              ELSE <<>>,
              Submissions |-> IF "submissions" \in DOMAIN sub
                              THEN [i \in 1..Len(sub["submissions"]) |->
                                        UnmarshalSubmission(sub["submissions"][i])]
                              ELSE <<>>]

\* bson.Unmarshal(doc, &userObject): elements the document lacks leave the
\* struct field at its zero value, elements the struct lacks are skipped.
\* The documents of the model are all of the shape the structs describe,
\* so bson.Marshal and bson.Unmarshal do not fail on them.
UserSchema(doc) ==
    [Email        |-> IF "email" \in DOMAIN doc THEN doc.email ELSE "",
     FirstName    |-> IF "firstName" \in DOMAIN doc THEN doc.firstName ELSE "",
     LastName     |-> IF "lastName" \in DOMAIN doc THEN doc.lastName ELSE "",
     Password     |-> IF "password" \in DOMAIN doc THEN doc.password ELSE "",
     RefreshToken |-> IF "refreshToken" \in DOMAIN doc THEN doc.refreshToken ELSE "",
     PlatformData |-> [f \in Platforms |->
                          IF "platformData" \in DOMAIN doc
                          THEN UnmarshalPlatform(doc.platformData, f)
                          ELSE PlatformDataModel]]

\* reflect FieldByName(platform) matches a field name exactly; for any other
\* name it yields the zero Value, on which Interface() panics.
getPlatformDataDynamically(platformData, platform) ==
    IF platform \in DOMAIN platformData
    THEN [panics |-> FALSE, value |-> platformData[platform]]
    ELSE [panics |-> TRUE,  value |-> PlatformDataModel]

----------------------------------------------------------------------------
(* The persistence layer: one MongoDB collection, documents keyed by       *)
(* email.  Each request is executed atomically on the document.  `fault`   *)
(* is what the environment does to the request: "none", "unavailable"      *)
(* (the store is not reached, nothing is executed) or, for an update,      *)
(* "replyLost" (the update is executed and its acknowledgement is lost).   *)

FindFaults   == {"none", "unavailable"}
UpdateFaults == {"none", "unavailable", "replyLost"}

\* Projection {"platformData.<key>.<field>": 1}: of the document's content
\* only that path is returned, as far as it exists.
Project(doc, projection) ==
    LET pd == doc.platformData
        k  == projection.key
    IN  [platformData |->
            IF k \in DOMAIN pd /\ projection.field \in DOMAIN pd[k]
            THEN [x \in {k} |-> [y \in {projection.field} |-> pd[k][y]]]
            ELSE <<>>]

\* collection.FindOne(ctx, filter, opts).Decode(&result); ctxIsDone tells
\* whether the context handed to the driver is already past its deadline.
FindOne(coll, ctxIsDone, fault, email, projection) ==
    IF ctxIsDone
    THEN [err |-> "DeadlineExceeded", doc |-> <<>>]
    ELSE IF fault = "unavailable"
    THEN [err |-> "StoreError", doc |-> <<>>]
    ELSE IF email \notin DOMAIN coll
    THEN [err |-> "ErrNoDocuments", doc |-> <<>>]
    ELSE [err |-> "none",
          doc |-> IF projection.all THEN coll[email]
                  ELSE Project(coll[email], projection)]

\* Variants of PushEach with a fault: the array is overwritten with the new
\* elements, the new elements go to the front, only the first new element
\* is stored.
PushEachOverwrite(array, each) == each
PushEachFront(array, each) == each \o array
PushEachFirstOnly(array, each) ==
    IF Len(each) = 0 THEN array ELSE Append(array, each[1])

\* $push with $each: the elements are added at the end of the array, in
\* the order given.
PushEach(array, each) == array \o each

\* Variant of ApplyPush with a fault: the sub-record of the platform is
\* replaced by one that holds the grown log alone, as a $set of
\* platformData.<key> would do.
ApplyPushWholeSubRecord(doc, update) ==
    LET pd  == doc.platformData
        k   == update.key
        sub == IF k \in DOMAIN pd THEN pd[k] ELSE <<>>
        old == IF update.field \in DOMAIN sub THEN sub[update.field] ELSE <<>>
        new == [y \in {update.field} |-> PushEach(old, update.each.array)]
    IN  [doc EXCEPT !.platformData =
            [x \in DOMAIN pd \cup {k} |-> IF x = k THEN new ELSE pd[x]]]

\* The update {"$push": {"platformData.<key>.<field>": {"$each": each}}}
\* applied to one document: embedded documents and the array that the path
\* names are created when the document lacks them.
ApplyPush(doc, update) ==
    LET pd  == doc.platformData
        k   == update.key
        sub == IF k \in DOMAIN pd THEN pd[k] ELSE <<>>
        old == IF update.field \in DOMAIN sub THEN sub[update.field] ELSE <<>>
        new == [y \in DOMAIN sub \cup {update.field} |->
                   IF y = update.field THEN PushEach(old, update.each.array)
                   ELSE sub[y]]
    IN  [doc EXCEPT !.platformData =
            [x \in DOMAIN pd \cup {k} |-> IF x = k THEN new ELSE pd[x]]]

\* collection.UpdateOne(ctx, filter, update): the server rejects a $each
\* that is not an array; an update that matches no document is
\* acknowledged without error, with a matched count of 0.
UpdateOne(coll, fault, email, update) ==
    IF fault = "unavailable"
    THEN [err |-> "StoreError", matched |-> 0, coll |-> coll]
    ELSE IF update.each.isNull
    THEN [err |-> "BadValue", matched |-> 0, coll |-> coll]
    ELSE [err     |-> IF fault = "replyLost" THEN "StoreError" ELSE "none",
          matched |-> IF email \in DOMAIN coll THEN 1 ELSE 0,
          coll    |-> IF email \in DOMAIN coll
                      THEN [coll EXCEPT ![email] = ApplyPush(@, update)]
                      ELSE coll]

----------------------------------------------------------------------------
(* The five operations.  dbResources is [selectedCollection, ctxDone,      *)
(* fault]: the collection as it is when the store executes the request,    *)
(* whether dbResources.ctx is past its deadline, and the environment's     *)
(* fault for this request.  A result is how the call ends: "returned"      *)
(* with a value, "fatal" (log.Fatalf: the process exits with status 1) or  *)
(* "panic" (a run-time panic unwinds into the caller); err is the err the  *)
(* driver gave the function.  The field `value` is a sequence: the value   *)
(* returned as its one element, empty when nothing is returned.            *)

Returned(v) == [outcome |-> "returned", value |-> <<v>>, err |-> "none"]
Fatal(err)  == [outcome |-> "fatal",    value |-> <<>>, err |-> err]
Panic       == [outcome |-> "panic",    value |-> <<>>, err |-> "none"]

\* Variant of GetLastContest with a fault: no default for an empty log
\* (the index len-1 is out of range and the call panics).
GetLastContestNoDefault(email, platform, dbResources) ==
    LET opts == [all |-> FALSE, key |-> ToLower(platform), field |-> "contests"]
        found == FindOne(dbResources.selectedCollection, dbResources.ctxDone,
                         dbResources.fault, email, opts)
    IN  IF found.err # "none" THEN Fatal(found.err)
        ELSE LET userObject   == UserSchema(found.doc)
                 platformData == getPlatformDataDynamically(
                                     userObject.PlatformData, platform)
             IN  IF platformData.panics \/ Len(platformData.value.Contests) = 0
                 THEN Panic
                 ELSE Returned(platformData.value.Contests[
                                   Len(platformData.value.Contests)])

GetLastContest(email, platform, dbResources) ==
    LET opts == [all |-> FALSE, key |-> ToLower(platform), field |-> "contests"]
        found == FindOne(dbResources.selectedCollection, dbResources.ctxDone,
                         dbResources.fault, email, opts)
    IN  IF found.err # "none" THEN Fatal(found.err)
        ELSE LET userObject   == UserSchema(found.doc)
                 platformData == getPlatformDataDynamically(
                                     userObject.PlatformData, platform)
             IN  IF platformData.panics THEN Panic
                 ELSE IF Len(platformData.value.Contests) = 0
                 THEN Returned(ContestData)
                 ELSE Returned(platformData.value.Contests[
                                   Len(platformData.value.Contests)])

GetLastSubmission(email, platform, dbResources) ==
    LET opts == [all |-> FALSE, key |-> ToLower(platform), field |-> "submissions"]
        found == FindOne(dbResources.selectedCollection, dbResources.ctxDone,
                         dbResources.fault, email, opts)
    IN  IF found.err # "none" THEN Fatal(found.err)
        ELSE LET userObject   == UserSchema(found.doc)
                 platformData == getPlatformDataDynamically(
                                     userObject.PlatformData, platform)
             IN  IF platformData.panics THEN Panic
                 ELSE IF Len(platformData.value.Submissions) = 0
                 THEN Returned(SubmissionData)
                 ELSE Returned(platformData.value.Submissions[
                                   Len(platformData.value.Submissions)])

\* Variant of FindContestsandSubmissionsFromDB with a fault: the sub-record
\* is resolved under the fixed name Leetcode, whatever platform is asked
\* for.
FindContestsandSubmissionsFromDBLeetcode(dbResources, email, platform) ==
    LET found == FindOne(dbResources.selectedCollection, FALSE,
                         dbResources.fault, email, [all |-> TRUE])
    IN  IF found.err # "none" THEN Fatal(found.err)
        ELSE LET userObject   == UserSchema(found.doc)
                 platformData == getPlatformDataDynamically(
                                     userObject.PlatformData, Leetcode)
             IN  IF platformData.panics THEN Panic
                 ELSE Returned(<<platformData.value.Contests,
                                 platformData.value.Submissions>>)

\* Reads the whole document under context.TODO(), which has no deadline.
FindContestsandSubmissionsFromDB(dbResources, email, platform) ==
    LET found == FindOne(dbResources.selectedCollection, FALSE,
                         dbResources.fault, email, [all |-> TRUE])
    IN  IF found.err # "none" THEN Fatal(found.err)
        ELSE LET userObject   == UserSchema(found.doc)
                 platformData == getPlatformDataDynamically(
                                     userObject.PlatformData, platform)
             IN  IF platformData.panics THEN Panic
                 ELSE Returned(<<platformData.value.Contests,
                                 platformData.value.Submissions>>)

\* Variant of updateContestQuery with a fault: the platform name is put
\* into the path as given.
updateContestQueryAsGiven(platform, newContestData) ==
    [key |-> platform, field |-> "contests",
     each |-> MarshalContests(newContestData)]

\* The update document an append sends.
updateContestQuery(platform, newContestData) ==
    [key |-> ToLower(platform), field |-> "contests",
     each |-> MarshalContests(newContestData)]

updateSubmissionQuery(platform, newSubmissionData) ==
    [key |-> ToLower(platform), field |-> "submissions",
     each |-> MarshalSubmissions(newSubmissionData)]

\* The appends update under context.TODO(); the UpdateResult (matched and
\* modified counts) is discarded, only err is looked at.  `coll` is the
\* collection after the call; the value returned is the error nil.
AppendContestData(dbResources, email, platform, newContestData) ==
    LET res == UpdateOne(dbResources.selectedCollection, dbResources.fault,
                         email, updateContestQuery(platform, newContestData))
    IN  [result |-> IF res.err # "none" THEN Fatal(res.err) ELSE Returned("nil"),
         coll   |-> res.coll]

AppendSubmissionData(dbResources, email, platform, newSubmissionData) ==
    LET res == UpdateOne(dbResources.selectedCollection, dbResources.fault,
                         email, updateSubmissionQuery(platform, newSubmissionData))
    IN  [result |-> IF res.err # "none" THEN Fatal(res.err) ELSE Returned("nil"),
         coll   |-> res.coll]

----------------
(* Inputs of the calls *)

leetcodeLower == <<"l","e","e","t","c","o","d","e">>
leetcodeUpper == <<"L","E","E","T","C","O","D","E">>
Spoj          == <<"S","p","o","j">>

EmailInputs    == {"a@x.com", "nobody@x.com"}
PlatformInputs == {Leetcode, leetcodeLower, leetcodeUpper, Codeforces, Spoj}

c1 == [ContestName |-> "Weekly 300", ContestDate |-> "2022-07-03",
       Rank |-> 1500, Rating |-> 1600, Solved |-> 3, ContestID |-> "300"]
c2 == [ContestName |-> "Biweekly 82", ContestDate |-> "2022-07-09",
       Rank |-> 900, Rating |-> 1650, Solved |-> 4, ContestID |-> "82"]
c3 == [ContestName |-> "Weekly 301", ContestDate |-> "2022-07-10",
       Rank |-> 700, Rating |-> 1700, Solved |-> 4, ContestID |-> "301"]

s1 == [ProblemUrl |-> "/problems/two-sum", ProblemName |-> "Two Sum",
       SubmissionDate |-> "2022-07-01", SubmissionLanguage |-> "go",
       SubmissionStatus |-> "Accepted", CodeUrl |-> "/submissions/1"]
s2 == [ProblemUrl |-> "/problems/lru-cache", ProblemName |-> "LRU Cache",
       SubmissionDate |-> "2022-07-02", SubmissionLanguage |-> "go",
       SubmissionStatus |-> "Wrong Answer", CodeUrl |-> "/submissions/2"]
s3 == [ProblemUrl |-> "/problems/lru-cache", ProblemName |-> "LRU Cache",
       SubmissionDate |-> "2022-07-03", SubmissionLanguage |-> "go",
       SubmissionStatus |-> "Accepted", CodeUrl |-> "/submissions/3"]

ContestInputs    == {NilSlice, Slice(<<>>), Slice(<<c1, c2>>), Slice(<<c3>>)}
SubmissionInputs == {NilSlice, Slice(<<>>), Slice(<<s1, s2>>), Slice(<<s3>>)}

\* What the single caller of SpecSeq draws its arguments from, and the
\* smaller sets the concurrent callers of Spec draw theirs from.
SeqInputs ==
    [emails |-> EmailInputs, platforms |-> PlatformInputs,
     contests |-> ContestInputs, submissions |-> SubmissionInputs]

ConcInputs ==
    [emails |-> EmailInputs, platforms |-> {Leetcode, leetcodeLower, Spoj},
     contests |-> {NilSlice, Slice(<<c1, c2>>), Slice(<<c3>>)},
     submissions |-> {NilSlice, Slice(<<s1, s2>>), Slice(<<s3>>)}]

----------------
(* The state machine *)

\* The user document as registration leaves it: a sub-record for every
\* platform, under the platform's lower-cased name, with empty logs.
NewUser(email) ==
    [email |-> email, firstName |-> "Ada", lastName |-> "L",
     password |-> "hash", refreshToken |-> "",
     platformData |->
        [k \in {ToLower(f) : f \in Platforms} |->
            [y \in {"handle", "totalsolved", "ranking", "contests", "submissions"} |->
                CASE y = "handle"      -> "ada"
                  [] y = "totalsolved" -> 0
                  [] y = "ranking"     -> 0
                  [] OTHER             -> <<>>]]]

\* The users the collection holds; the calls address the first of them
\* and an email that no document has.
RegisteredEmails == {"a@x.com", "b@x.com"}

NoCall ==
    [pc |-> "idle", op |-> "none", email |-> "", platform |-> <<>>,
     newData |-> NilSlice,
     result |-> [outcome |-> "none", value |-> <<>>, err |-> "none"]]

\* The handle as a successful OpenDatabaseConnection returns it: the client
\* connected, the context live and its cancel function not yet called.
Opened == [status |-> "open", client |-> "connected", ctx |-> "live"]

\* No formatter has been called.
NoFormat ==
    [pc |-> "idle", fn |-> "none", contestDataforDB |-> <<>>,
     submissionDataforDB |-> <<>>, outcome |-> "none",
     out |-> [Submissions |-> <<>>, Contests |-> <<>>], heap |-> <<>>]

\* The state after a successful OpenDatabaseConnection.
Init ==
    /\ db = [e \in RegisteredEmails |-> NewUser(e)]
    /\ call = [c \in Callers |-> NoCall]
    /\ alive = TRUE
    /\ ctxDone = FALSE
    /\ ncalls = 0
    /\ storeSilent = FALSE
    /\ conn = Opened
    /\ grpc = NoFormat

\* The handle the callers pass, as the store sees it for one request.
DBResources(fault) ==
    [selectedCollection |-> db, ctxDone |-> ctxDone, fault |-> fault]

\* Caller c starts a call: the arguments are fixed, the request is built
\* and handed to the driver.
Start(c, op, email, platform, newData, maxCalls) ==
    /\ alive
    /\ call[c].pc \in {"idle", "done"}
    /\ ncalls < maxCalls
    /\ call' = [call EXCEPT ![c] =
                   [pc |-> "sent", op |-> op, email |-> email,
                    platform |-> platform, newData |-> newData,
                    result |-> NoCall.result]]
    /\ ncalls' = ncalls + 1
    /\ UNCHANGED <<db, alive, ctxDone, others>>

\* The call of caller c ends with result r.  log.Fatalf ends the process;
\* a panic ends it unless the caller recovers.
Finish(c, r) ==
    /\ call' = [call EXCEPT ![c].pc = "done", ![c].result = r]
    /\ \/ r.outcome = "returned" /\ alive' = TRUE
       \/ r.outcome = "fatal" /\ alive' = FALSE
       \/ r.outcome = "panic" /\ alive' \in BOOLEAN
    /\ UNCHANGED <<ctxDone, ncalls, others>>

\* The driver call of c's request comes back: the store answers, or the
\* context the call was given is done.  Only GetLastContest and
\* GetLastSubmission pass dbResources.ctx; the other three operations pass
\* context.TODO(), which is never done.
ComesBack(c) ==
    \/ ~storeSilent
    \/ call[c].op \in {"GetLastContest", "GetLastSubmission"} /\ ctxDone

Pending(c, op) ==
    alive /\ call[c].pc = "sent" /\ call[c].op = op /\ ComesBack(c)

CallGetLastContest(c, inputs, maxCalls) ==
    \E email \in inputs.emails, platform \in inputs.platforms :
        Start(c, "GetLastContest", email, platform, NilSlice, maxCalls)

\* Variant of ReturnGetLastContest with a fault: the read takes the last
\* entry off the log it reads (a find-and-update with $pop in place of the
\* find).
ReturnGetLastContestPop(c) ==
    /\ Pending(c, "GetLastContest")
    /\ \E fault \in FindFaults :
          Finish(c, GetLastContest(call[c].email, call[c].platform,
                                   DBResources(fault)))
    /\ LET e == call[c].email
           k == ToLower(call[c].platform)
       IN  db' = IF /\ e \in DOMAIN db
                    /\ k \in DOMAIN db[e].platformData
                    /\ "contests" \in DOMAIN db[e].platformData[k]
                    /\ Len(db[e].platformData[k].contests) > 0
                 THEN [db EXCEPT ![e].platformData[k].contests =
                          SubSeq(@, 1, Len(@) - 1)]
                 ELSE db

ReturnGetLastContest(c) ==
    /\ Pending(c, "GetLastContest")
    /\ \E fault \in FindFaults :
          Finish(c, GetLastContest(call[c].email, call[c].platform,
                                   DBResources(fault)))
    /\ UNCHANGED db

CallGetLastSubmission(c, inputs, maxCalls) ==
    \E email \in inputs.emails, platform \in inputs.platforms :
        Start(c, "GetLastSubmission", email, platform, NilSlice, maxCalls)

ReturnGetLastSubmission(c) ==
    /\ Pending(c, "GetLastSubmission")
    /\ \E fault \in FindFaults :
          Finish(c, GetLastSubmission(call[c].email, call[c].platform,
                                      DBResources(fault)))
    /\ UNCHANGED db

CallFindContestsandSubmissionsFromDB(c, inputs, maxCalls) ==
    \E email \in inputs.emails, platform \in inputs.platforms :
        Start(c, "FindContestsandSubmissionsFromDB", email, platform, NilSlice,
              maxCalls)

ReturnFindContestsandSubmissionsFromDB(c) ==
    /\ Pending(c, "FindContestsandSubmissionsFromDB")
    /\ \E fault \in FindFaults :
          Finish(c, FindContestsandSubmissionsFromDB(DBResources(fault),
                        call[c].email, call[c].platform))
    /\ UNCHANGED db

CallAppendContestData(c, inputs, maxCalls) ==
    \E email \in inputs.emails, platform \in inputs.platforms,
       newContestData \in inputs.contests :
        Start(c, "AppendContestData", email, platform, newContestData, maxCalls)

ReturnAppendContestData(c) ==
    /\ Pending(c, "AppendContestData")
    /\ \E fault \in UpdateFaults :
          LET r == AppendContestData(DBResources(fault), call[c].email,
                                     call[c].platform, call[c].newData)
          IN  /\ db' = r.coll
              /\ Finish(c, r.result)

CallAppendSubmissionData(c, inputs, maxCalls) ==
    \E email \in inputs.emails, platform \in inputs.platforms,
       newSubmissionData \in inputs.submissions :
        Start(c, "AppendSubmissionData", email, platform, newSubmissionData,
              maxCalls)

ReturnAppendSubmissionData(c) ==
    /\ Pending(c, "AppendSubmissionData")
    /\ \E fault \in UpdateFaults :
          LET r == AppendSubmissionData(DBResources(fault), call[c].email,
                                        call[c].platform, call[c].newData)
          IN  /\ db' = r.coll
              /\ Finish(c, r.result)

\* An update that was handed to the driver before the process exited may
\* still be executed by the store; nobody is left to receive the answer.
OrphanUpdate(c) ==
    /\ ~alive
    /\ call[c].pc = "sent"
    /\ call[c].op \in {"AppendContestData", "AppendSubmissionData"}
    /\ \E fault \in {"none", "unavailable"} :
          db' = IF call[c].op = "AppendContestData"
                THEN AppendContestData(DBResources(fault), call[c].email,
                                       call[c].platform, call[c].newData).coll
                ELSE AppendSubmissionData(DBResources(fault), call[c].email,
                                          call[c].platform, call[c].newData).coll
    /\ call' = [call EXCEPT ![c].pc = "lost"]
    /\ UNCHANGED <<alive, ctxDone, ncalls, others>>

\* The 10 seconds of the context made by OpenDatabaseConnection run out.
CtxDeadline ==
    /\ ~ctxDone
    /\ ctxDone' = TRUE
    /\ UNCHANGED <<db, call, alive, ncalls, others>>

\* Spec: the callers run concurrently.
Next ==
    \/ \E c \in Callers : CallAppendContestData(c, ConcInputs, MaxCalls)
    \/ \E c \in Callers : ReturnAppendContestData(c)
    \/ \E c \in Callers : CallAppendSubmissionData(c, ConcInputs, MaxCalls)
    \/ \E c \in Callers : ReturnAppendSubmissionData(c)
    \/ \E c \in Callers : CallGetLastContest(c, ConcInputs, MaxCalls)
    \/ \E c \in Callers : ReturnGetLastContest(c)
    \/ \E c \in Callers : CallGetLastSubmission(c, ConcInputs, MaxCalls)
    \/ \E c \in Callers : ReturnGetLastSubmission(c)
    \/ \E c \in Callers : CallFindContestsandSubmissionsFromDB(c, ConcInputs, MaxCalls)
    \/ \E c \in Callers : ReturnFindContestsandSubmissionsFromDB(c)
    \/ \E c \in Callers : OrphanUpdate(c)
    \/ CtxDeadline

Spec == Init /\ [][Next]_vars

\* SpecSeq: one caller, one call after the other, over the larger inputs.
NextSeq ==
    \/ CallAppendContestData("w1", SeqInputs, MaxSeqCalls)
    \/ ReturnAppendContestData("w1")
    \/ CallAppendSubmissionData("w1", SeqInputs, MaxSeqCalls)
    \/ ReturnAppendSubmissionData("w1")
    \/ CallGetLastContest("w1", SeqInputs, MaxSeqCalls)
    \/ ReturnGetLastContest("w1")
    \/ CallGetLastSubmission("w1", SeqInputs, MaxSeqCalls)
    \/ ReturnGetLastSubmission("w1")
    \/ CallFindContestsandSubmissionsFromDB("w1", SeqInputs, MaxSeqCalls)
    \/ ReturnFindContestsandSubmissionsFromDB("w1")
    \/ CtxDeadline

SpecSeq == Init /\ [][NextSeq]_vars

\* The inputs of SpecWait: one existing user and one platform suffice,
\* what is observed is whether a call ends.
WaitInputs ==
    [emails |-> {"a@x.com"}, platforms |-> {Leetcode, Codeforces},
     contests |-> {Slice(<<c3>>)}, submissions |-> {Slice(<<s3>>)}]

\* The store stops answering: requests are accepted and no reply ever
\* comes.
StoreGoesSilent ==
    /\ ~storeSilent
    /\ storeSilent' = TRUE
    /\ UNCHANGED <<db, call, alive, ctxDone, ncalls, conn, grpc>>

\* SpecWait: one caller and a store that may stop answering.  A driver
\* call that can come back does come back, and time passes (SpecWait
\* states weak fairness of the steps that end a call and of the context's
\* deadline).
NextWait ==
    \/ CallAppendContestData("w1", WaitInputs, MaxCalls)
    \/ ReturnAppendContestData("w1")
    \/ CallAppendSubmissionData("w1", WaitInputs, MaxCalls)
    \/ ReturnAppendSubmissionData("w1")
    \/ CallGetLastContest("w1", WaitInputs, MaxCalls)
    \/ ReturnGetLastContest("w1")
    \/ CallGetLastSubmission("w1", WaitInputs, MaxCalls)
    \/ ReturnGetLastSubmission("w1")
    \/ CallFindContestsandSubmissionsFromDB("w1", WaitInputs, MaxCalls)
    \/ ReturnFindContestsandSubmissionsFromDB("w1")
    \/ CtxDeadline
    \/ StoreGoesSilent

\* What the steps under fairness change: the position of the caller and
\* the state of the context.
waiting == <<call["w1"].pc, ctxDone>>

SpecWait ==
    /\ Init
    /\ [][NextWait]_vars
    /\ WF_waiting(\/ ReturnAppendContestData("w1")
                  \/ ReturnAppendSubmissionData("w1")
                  \/ ReturnGetLastContest("w1")
                  \/ ReturnGetLastSubmission("w1")
                  \/ ReturnFindContestsandSubmissionsFromDB("w1"))
    /\ WF_waiting(CtxDeadline)

----------------------------------------------------------------------------
(* The life of the handle: OpenDatabaseConnection, the store operations   *)
(* on the handle it returned, CloseDatabaseConnection.                     *)

\* Before the open: no client, no context.
NotOpened == [status |-> "start", client |-> "none", ctx |-> "none"]

\* How the open can go: mongo.NewClient rejects the URI, client.Connect
\* fails, or both succeed.
OpenOutcomes == {"NewClientError", "ConnectError", "connected"}

\* OpenDatabaseConnection(mongoURI): on a NewClient error it returns before
\* a context is made; on a Connect error it calls cancel and returns the
\* zero DBResources, the client created and never connected; otherwise it
\* returns the connected client with the live context and its cancel
\* function.
OpenDatabaseConnection(outcome) ==
    CASE outcome = "NewClientError" ->
            [status |-> "failed", client |-> "none", ctx |-> "none"]
      [] outcome = "ConnectError" ->
            [status |-> "failed", client |-> "created", ctx |-> "cancelled"]
      [] OTHER -> Opened

\* CloseDatabaseConnection(dbResources): client.Disconnect, then cancel.
CloseDatabaseConnection(dbResources) ==
    [status |-> "closed", client |-> "disconnected", ctx |-> "cancelled"]

InitLife ==
    /\ db = [e \in RegisteredEmails |-> NewUser(e)]
    /\ call = [c \in Callers |-> NoCall]
    /\ alive = TRUE
    /\ ctxDone = FALSE
    /\ ncalls = 0
    /\ storeSilent = FALSE
    /\ conn = NotOpened
    /\ grpc = NoFormat

Open ==
    /\ alive
    /\ conn.status = "start"
    /\ \E outcome \in OpenOutcomes : conn' = OpenDatabaseConnection(outcome)
    /\ UNCHANGED <<db, call, alive, ctxDone, ncalls, storeSilent, grpc>>

\* The caller closes the handle when no call of its own is in progress.
Close ==
    /\ alive
    /\ conn.status = "open"
    /\ \A c \in Callers : call[c].pc # "sent"
    /\ conn' = CloseDatabaseConnection(conn)
    /\ UNCHANGED <<db, call, alive, ctxDone, ncalls, storeSilent, grpc>>

\* SpecLife: one caller opens the handle, runs store operations on it and
\* closes it.
NextLife ==
    \/ Open
    \/ conn.status = "open" /\ CallAppendContestData("w1", ConcInputs, MaxCalls)
    \/ ReturnAppendContestData("w1")
    \/ conn.status = "open" /\ CallAppendSubmissionData("w1", ConcInputs, MaxCalls)
    \/ ReturnAppendSubmissionData("w1")
    \/ conn.status = "open" /\ CallGetLastContest("w1", ConcInputs, MaxCalls)
    \/ ReturnGetLastContest("w1")
    \/ conn.status = "open" /\ CallGetLastSubmission("w1", ConcInputs, MaxCalls)
    \/ ReturnGetLastSubmission("w1")
    \/ conn.status = "open"
          /\ CallFindContestsandSubmissionsFromDB("w1", ConcInputs, MaxCalls)
    \/ ReturnFindContestsandSubmissionsFromDB("w1")
    \/ conn.status = "open" /\ CtxDeadline
    \/ Close

SpecLife == InitLife /\ [][NextLife]_vars

----------------------------------------------------------------------------
(* The response formatters.  A ContestID is a sequence of one-character    *)
(* strings here, so that strconv.ParseFloat is computed character by       *)
(* character.  A formatter returns a slice of pointers: `out` is the       *)
(* sequence of addresses and `heap` the records allocated, heap[a] being   *)
(* the record at address a.                                                *)

Digits == <<"0","1","2","3","4","5","6","7","8","9">>

IsDigit(ch) == \E i \in 1..Len(Digits) : Digits[i] = ch

DigitValue(ch) == (CHOOSE i \in 1..Len(Digits) : Digits[i] = ch) - 1

\* The number a sequence of decimal digits writes.
RECURSIVE DecimalValue(_)
DecimalValue(ds) ==
    IF ds = <<>> THEN 0
    ELSE 10 * DecimalValue(SubSeq(ds, 1, Len(ds) - 1)) + DigitValue(ds[Len(ds)])

RECURSIVE Pow10(_)
Pow10(n) == IF n = 0 THEN 1 ELSE 10 * Pow10(n - 1)

\* A float64 value: NaN, an infinity, or the finite value mant * 10^exp,
\* kept in one form per value (exp = 0 for a whole number, otherwise no
\* trailing zero in mant).  The inputs are short enough to be exact.
NaN == [class |-> "nan", neg |-> FALSE, mant |-> 0, exp |-> 0]

Inf(neg) == [class |-> "inf", neg |-> neg, mant |-> 0, exp |-> 0]

RECURSIVE Float(_, _, _)
Float(neg, mant, exp) ==
    IF exp >= 0
    THEN [class |-> "finite", neg |-> neg, mant |-> mant * Pow10(exp), exp |-> 0]
    ELSE IF mant % 10 = 0
    THEN Float(neg, mant \div 10, exp + 1)
    ELSE [class |-> "finite", neg |-> neg, mant |-> mant, exp |-> exp]

\* The position after the run of decimal digits of s that starts at i.
DigitsEnd(s, i) ==
    CHOOSE j \in i..(Len(s) + 1) :
        /\ \A k \in i..(j - 1) : IsDigit(s[k])
        /\ j = Len(s) + 1 \/ ~IsDigit(s[j])

\* strconv.ParseFloat(s, 64) on decimal input: "nan", and "inf" and
\* "infinity" with an optional sign, in any letter case; otherwise an
\* optional sign, digits with an optional point (one digit at least), and
\* an optional exponent e, sign, digits; anything else, the empty string
\* included, is a syntax error.  The scan goes left to right: `low` is
\* the lower-cased input, `mant` the digits of the mantissa read so far
\* and `nfrac` how many of them stood after the point.
ErrSyntax == [err |-> "ErrSyntax", value |-> Float(FALSE, 0, 0)]

\* The exponent's digits are low[i3..i4-1] and must end the input.
readExponentDigits(low, neg, mant, nfrac, eneg, i3, i4) ==
    IF i4 > i3 /\ i4 = Len(low) + 1
    THEN [err |-> "nil",
          value |-> Float(neg, DecimalValue(mant),
                          (IF eneg THEN 0 - DecimalValue(SubSeq(low, i3, i4 - 1))
                           ELSE DecimalValue(SubSeq(low, i3, i4 - 1))) - nfrac)]
    ELSE ErrSyntax

\* The mantissa ends before position i2.
readExponent(low, neg, mant, nfrac, i2) ==
    IF Len(mant) = 0 THEN ErrSyntax
    ELSE IF i2 = Len(low) + 1
    THEN [err |-> "nil", value |-> Float(neg, DecimalValue(mant), 0 - nfrac)]
    ELSE IF low[i2] # "e" THEN ErrSyntax
    ELSE IF i2 + 1 <= Len(low) /\ low[i2 + 1] \in {"+", "-"}
    THEN readExponentDigits(low, neg, mant, nfrac, low[i2 + 1] = "-",
                            i2 + 2, DigitsEnd(low, i2 + 2))
    ELSE readExponentDigits(low, neg, mant, nfrac, FALSE,
                            i2 + 1, DigitsEnd(low, i2 + 1))

\* The digits before the point are low[i0..i1-1].
readFraction(low, neg, i0, i1) ==
    IF i1 <= Len(low) /\ low[i1] = "."
    THEN readExponent(low, neg,
             SubSeq(low, i0, i1 - 1)
                 \o SubSeq(low, i1 + 1, DigitsEnd(low, i1 + 1) - 1),
             DigitsEnd(low, i1 + 1) - (i1 + 1),
             DigitsEnd(low, i1 + 1))
    ELSE readExponent(low, neg, SubSeq(low, i0, i1 - 1), 0, i1)

\* The input after its sign starts at i0.
readFloat(low, neg, i0) ==
    IF SubSeq(low, i0, Len(low))
          \in {<<"i","n","f">>, <<"i","n","f","i","n","i","t","y">>}
    THEN [err |-> "nil", value |-> Inf(neg)]
    ELSE readFraction(low, neg, i0, DigitsEnd(low, i0))

ParseFloat(s) ==
    IF ToLower(s) = <<"n","a","n">> THEN [err |-> "nil", value |-> NaN]
    ELSE IF Len(s) > 0 /\ s[1] \in {"+", "-"}
    THEN readFloat(ToLower(s), s[1] = "-", 2)
    ELSE readFloat(ToLower(s), FALSE, 1)

\* platformDatapb.Submission{...} and platformDatapb.Contest{...}
Submission(submission) ==
    [Date          |-> submission.SubmissionDate,
     Language      |-> submission.SubmissionLanguage,
     ProblemStatus |-> submission.SubmissionStatus,
     ProblemTitle  |-> submission.ProblemName,
     ProblemLink   |-> submission.ProblemUrl,
     CodeLink      |-> submission.CodeUrl]

Contest(contest, contestIDParsedToFloat) ==
    [ContestName |-> contest.ContestName,
     Rank        |-> contest.Rank,
     Rating      |-> contest.Rating,
     ContestId   |-> contestIDParsedToFloat,
     ContestDate |-> contest.ContestDate]

\* Variant of formatSubmissionSchemaToGRPCSubmission with a fault: one
\* response object serves every iteration, and every element of the result
\* is its address.
RECURSIVE formatSubmissionLoopAliased(_, _, _)
formatSubmissionLoopAliased(submissionDataforDB, i, acc) ==
    IF i > Len(submissionDataforDB)
    THEN [outcome |-> "returned", out |-> acc.out, heap |-> acc.heap]
    ELSE formatSubmissionLoopAliased(submissionDataforDB, i + 1,
             [out  |-> Append(acc.out, 1),
              heap |-> <<Submission(submissionDataforDB[i])>>])

formatSubmissionSchemaToGRPCSubmissionAliased(submissionDataforDB) ==
    formatSubmissionLoopAliased(submissionDataforDB, 1,
                                [out |-> <<>>, heap |-> <<>>])

\* The loop of formatSubmissionSchemaToGRPCSubmission from its i-th
\* iteration on: each iteration allocates its own response object and
\* appends its address.
RECURSIVE formatSubmissionLoop(_, _, _)
formatSubmissionLoop(submissionDataforDB, i, acc) ==
    IF i > Len(submissionDataforDB)
    THEN [outcome |-> "returned", out |-> acc.out, heap |-> acc.heap]
    ELSE LET heap == Append(acc.heap, Submission(submissionDataforDB[i]))
         IN  formatSubmissionLoop(submissionDataforDB, i + 1,
                 [out |-> Append(acc.out, Len(heap)), heap |-> heap])

formatSubmissionSchemaToGRPCSubmission(submissionDataforDB) ==
    formatSubmissionLoop(submissionDataforDB, 1, [out |-> <<>>, heap |-> <<>>])

\* The loop of formatContestSchemaToGRPCContest: log.Fatalf on the first
\* ContestID that ParseFloat rejects.
RECURSIVE formatContestLoop(_, _, _)
formatContestLoop(contestDataforDB, i, acc) ==
    IF i > Len(contestDataforDB)
    THEN [outcome |-> "returned", out |-> acc.out, heap |-> acc.heap]
    ELSE LET parsed == ParseFloat(contestDataforDB[i].ContestID)
         IN  IF parsed.err # "nil"
             THEN [outcome |-> "fatal", out |-> <<>>, heap |-> <<>>]
             ELSE LET heap == Append(acc.heap,
                                     Contest(contestDataforDB[i], parsed.value))
                  IN  formatContestLoop(contestDataforDB, i + 1,
                          [out |-> Append(acc.out, Len(heap)), heap |-> heap])

formatContestSchemaToGRPCContest(contestDataforDB) ==
    formatContestLoop(contestDataforDB, 1, [out |-> <<>>, heap |-> <<>>])

\* The three response constructors.  The result is the response's two
\* lists of addresses and the heap they point into.
CreateGRPCSubmissionResponseFromSubmissionSchema(submissionDataforDB) ==
    LET subs == formatSubmissionSchemaToGRPCSubmission(submissionDataforDB)
    IN  [outcome |-> subs.outcome,
         out     |-> [Submissions |-> subs.out, Contests |-> <<>>],
         heap    |-> subs.heap]

CreateGRPCContestResponseFromContestSchema(contestDataforDB) ==
    LET cons == formatContestSchemaToGRPCContest(contestDataforDB)
    IN  [outcome |-> cons.outcome,
         out     |-> [Submissions |-> <<>>, Contests |-> cons.out],
         heap    |-> cons.heap]

\* The submissions are formatted first; the contests' objects are allocated
\* after them.
CreateGRPCCompleteUserDataResponseFromSubmssionSchema(submissionDataforDB, contestDataforDB) ==
    LET subs == formatSubmissionSchemaToGRPCSubmission(submissionDataforDB)
        cons == formatContestSchemaToGRPCContest(contestDataforDB)
    IN  IF cons.outcome = "fatal"
        THEN [outcome |-> "fatal",
              out |-> [Submissions |-> <<>>, Contests |-> <<>>], heap |-> <<>>]
        ELSE [outcome |-> "returned",
              out  |-> [Submissions |-> subs.out,
                        Contests |-> [i \in 1..Len(cons.out) |->
                                         Len(subs.heap) + cons.out[i]]],
              heap |-> subs.heap \o cons.heap]

\* Bound: the length of the sequences handed to a formatter.
MaxFmtLen == 2

\* The ContestID strings: numbers in plain digits, the empty string of a
\* zero-valued ContestData, strings that are no number, and strings in the
\* other syntaxes ParseFloat knows.
IDInputs ==
    {<<"1","2","3","4","5">>, <<"3","0","0">>, <<>>, <<"a","b","c">>,
     <<"1","2","a">>, <<"1","e","3">>, <<"2",".","5","0">>, <<"-","7">>,
     <<"I","n","f">>}

SeqsUpTo(S, n) == UNION {[1..k -> S] : k \in 0..n}

FmtContestInputs ==
    SeqsUpTo({[c1 EXCEPT !.ContestID = id] : id \in IDInputs}, MaxFmtLen)

FmtSubmissionInputs == SeqsUpTo({s1, s2}, MaxFmtLen)

\* A formatter is called with its arguments.
CallFormatter(fn, submissionDataforDB, contestDataforDB) ==
    /\ alive
    /\ grpc.pc = "idle"
    /\ grpc' = [grpc EXCEPT !.pc = "called", !.fn = fn,
                            !.submissionDataforDB = submissionDataforDB,
                            !.contestDataforDB = contestDataforDB]
    /\ UNCHANGED <<db, call, alive, ctxDone, ncalls, storeSilent, conn>>

\* The formatter runs to its end: it returns, or log.Fatalf ends the
\* process.
ReturnFormatter ==
    /\ alive
    /\ grpc.pc = "called"
    /\ LET r == CASE grpc.fn = "formatSubmissionSchemaToGRPCSubmission" ->
                      LET subs == formatSubmissionSchemaToGRPCSubmission(
                                      grpc.submissionDataforDB)
                      IN  [outcome |-> subs.outcome, heap |-> subs.heap,
                           out |-> [Submissions |-> subs.out, Contests |-> <<>>]]
                  [] grpc.fn = "formatContestSchemaToGRPCContest" ->
                      LET cons == formatContestSchemaToGRPCContest(
                                      grpc.contestDataforDB)
                      IN  [outcome |-> cons.outcome, heap |-> cons.heap,
                           out |-> [Submissions |-> <<>>, Contests |-> cons.out]]
                  [] grpc.fn = "CreateGRPCSubmissionResponseFromSubmissionSchema" ->
                      CreateGRPCSubmissionResponseFromSubmissionSchema(
                          grpc.submissionDataforDB)
                  [] grpc.fn = "CreateGRPCContestResponseFromContestSchema" ->
                      CreateGRPCContestResponseFromContestSchema(
                          grpc.contestDataforDB)
                  [] OTHER ->
                      CreateGRPCCompleteUserDataResponseFromSubmssionSchema(
                          grpc.submissionDataforDB, grpc.contestDataforDB)
       IN  /\ grpc' = [grpc EXCEPT !.pc = "done", !.outcome = r.outcome,
                                   !.out = r.out, !.heap = r.heap]
           /\ alive' = (r.outcome # "fatal")
    /\ UNCHANGED <<db, call, ctxDone, ncalls, storeSilent, conn>>

\* SpecFmt: one call of a formatter or of a response constructor, over
\* every input of the bounded sets.
NextFmt ==
    \/ \E subs \in FmtSubmissionInputs :
          CallFormatter("formatSubmissionSchemaToGRPCSubmission", subs, <<>>)
    \/ \E cons \in FmtContestInputs :
          CallFormatter("formatContestSchemaToGRPCContest", <<>>, cons)
    \/ \E subs \in FmtSubmissionInputs :
          CallFormatter("CreateGRPCSubmissionResponseFromSubmissionSchema",
                        subs, <<>>)
    \/ \E cons \in FmtContestInputs :
          CallFormatter("CreateGRPCContestResponseFromContestSchema", <<>>, cons)
    \/ \E subs \in FmtSubmissionInputs, cons \in FmtContestInputs :
          CallFormatter("CreateGRPCCompleteUserDataResponseFromSubmssionSchema",
                        subs, cons)
    \/ ReturnFormatter

SpecFmt == Init /\ [][NextFmt]_vars

----------------------------------------------------------------------------
(* Vocabulary of the properties *)

AppendOps == {"AppendContestData", "AppendSubmissionData"}
ReadOps   == {"GetLastContest", "GetLastSubmission",
              "FindContestsandSubmissionsFromDB"}

\* The keys under which the documents hold the enumerated platforms.
EnumeratedKeys == {ToLower(f) : f \in Platforms}

\* The stored array at platformData.<key>.<field> of a user's document,
\* empty when the document has no such path.
StoredLog(coll, email, key, field) ==
    IF /\ email \in DOMAIN coll
       /\ key \in DOMAIN coll[email].platformData
       /\ field \in DOMAIN coll[email].platformData[key]
    THEN coll[email].platformData[key][field]
    ELSE <<>>

LogField(op) ==
    IF op \in {"AppendContestData", "GetLastContest"} THEN "contests"
    ELSE "submissions"

\* The log a call addresses, and the block of stored entries an append
\* call supplies.
AddressedLog(coll, cl) ==
    StoredLog(coll, cl.email, ToLower(cl.platform), LogField(cl.op))

Block(cl) ==
    IF cl.op = "AppendContestData"
    THEN [i \in 1..Len(cl.newData.elems) |-> MarshalContest(cl.newData.elems[i])]
    ELSE [i \in 1..Len(cl.newData.elems) |-> MarshalSubmission(cl.newData.elems[i])]

Range(seq) == {seq[i] : i \in 1..Len(seq)}

IsPrefix(a, b) == Len(a) <= Len(b) /\ SubSeq(b, 1, Len(a)) = a

EndsWith(log, block) ==
    /\ Len(block) <= Len(log)
    /\ SubSeq(log, Len(log) - Len(block) + 1, Len(log)) = block

\* The step in which the call of caller c is executed and ends.
Ends(c) == call[c].pc = "sent" /\ call'[c].pc = "done"

Done(c) == call[c].pc = "done"

\* The store answered the request of c's finished call without an error.
Answered(c) == Done(c) /\ call[c].result.err = "none"

\* The call is a read, or an append that supplies at least one entry.
HasEntries(cl) == cl.op \in AppendOps => Len(cl.newData.elems) > 0

\* What a read of the log stored under the lower-cased platform name is to
\* return: the last contest or submission (the zero record for an empty
\* log), or both logs in full.
ExpectedRead(coll, cl) ==
    LET contests    == StoredLog(coll, cl.email, ToLower(cl.platform), "contests")
        submissions == StoredLog(coll, cl.email, ToLower(cl.platform), "submissions")
    IN  CASE cl.op = "GetLastContest" ->
                IF Len(contests) = 0 THEN ContestData
                ELSE UnmarshalContest(contests[Len(contests)])
          [] cl.op = "GetLastSubmission" ->
                IF Len(submissions) = 0 THEN SubmissionData
                ELSE UnmarshalSubmission(submissions[Len(submissions)])
          [] OTHER ->
                << [i \in 1..Len(contests) |-> UnmarshalContest(contests[i])],
                   [i \in 1..Len(submissions) |-> UnmarshalSubmission(submissions[i])] >>

----------------------------------------------------------------------------
(* C1 *)

\* C1: concurrent appends lose nothing.  When the two callers have each run
\* an AppendSubmissionData on the same (email, platform) of an existing user
\* with disjoint entries, and the store executed both updates, then both
\* calls returned nil and the submissions log holds every entry of both
\* calls, whatever the order in which the store executed them.
C1_ConcurrentAppendsKeepBoth ==
    \A a, b \in Callers :
        ( /\ a # b
          /\ Answered(a) /\ Answered(b)
          /\ call[a].op = "AppendSubmissionData"
          /\ call[b].op = "AppendSubmissionData"
          /\ call[a].email = call[b].email
          /\ call[a].email \in DOMAIN db
          /\ call[a].platform = call[b].platform
          /\ Range(Block(call[a])) \cap Range(Block(call[b])) = {} )
        => /\ call[a].result = Returned("nil")
           /\ call[b].result = Returned("nil")
           /\ Range(Block(call[a])) \cup Range(Block(call[b]))
                 \subseteq Range(AddressedLog(db, call[a]))
           /\ Len(AddressedLog(db, call[a]))
                 >= Len(Block(call[a])) + Len(Block(call[b]))

\* Both callers appended to the Leetcode submissions of a@x.com, w1 the
\* entries s1, s2 and w2 the entry s3, and the store executed w2's update
\* first.
C1_Witness ==
    /\ Answered("w1") /\ Answered("w2")
    /\ call["w1"].op = "AppendSubmissionData"
    /\ call["w2"].op = "AppendSubmissionData"
    /\ call["w1"].email = "a@x.com" /\ call["w2"].email = "a@x.com"
    /\ call["w1"].platform = Leetcode /\ call["w2"].platform = Leetcode
    /\ call["w1"].newData = Slice(<<s1, s2>>)
    /\ call["w2"].newData = Slice(<<s3>>)
    /\ StoredLog(db, "a@x.com", ToLower(Leetcode), "submissions")
          = <<MarshalSubmission(s3), MarshalSubmission(s1), MarshalSubmission(s2)>>

----------------------------------------------------------------------------
(* C2 *)

\* C2: appends and reads compose.  For an existing user and a platform of
\* the enumerated set, whenever the store executes the request without an
\* error: an AppendContestData returns nil and leaves the contests log as
\* the log before followed by the supplied entries in their order; a
\* GetLastContest returns the last entry of the log; a
\* FindContestsandSubmissionsFromDB returns both logs in full.  With one
\* call after the other this gives: after the appends of [c1, c2] and of
\* [c3], GetLastContest returns c3 and the full read returns the prior log
\* followed by c1, c2, c3.
C2_Step ==
    \A c \in Callers :
        ( /\ Ends(c)
          /\ call'[c].result.err = "none"
          /\ call[c].email \in DOMAIN db
          /\ call[c].platform \in Platforms )
        => CASE call[c].op = "AppendContestData" ->
                   /\ call'[c].result = Returned("nil")
                   /\ AddressedLog(db', call[c])
                         = AddressedLog(db, call[c]) \o Block(call[c])
             [] call[c].op \in {"GetLastContest",
                                "FindContestsandSubmissionsFromDB"} ->
                   call'[c].result = Returned(ExpectedRead(db, call[c]))
             [] OTHER -> TRUE

C2_AppendsThenReads == [][C2_Step]_vars

\* After the appends of [c1, c2] and [c3] to the Leetcode contests of
\* a@x.com, GetLastContest has returned c3.
C2_Witness ==
    /\ Done("w1")
    /\ call["w1"].op = "GetLastContest"
    /\ call["w1"].email = "a@x.com"
    /\ call["w1"].platform = Leetcode
    /\ call["w1"].result = Returned(c3)
    /\ StoredLog(db, "a@x.com", ToLower(Leetcode), "contests")
          = <<MarshalContest(c1), MarshalContest(c2), MarshalContest(c3)>>

----------------------------------------------------------------------------
(* C3 *)

\* C3: for an email that matches no user document, every operation (on a
\* platform of the enumerated set, an append with at least one entry) whose
\* request the store answers returns the error UserNotFound to its caller.
C3_UnknownEmailReturnsUserNotFound ==
    \A c \in Callers :
        ( /\ Done(c)
          /\ call[c].email \notin DOMAIN db
          /\ call[c].platform \in Platforms
          /\ HasEntries(call[c])
          /\ call[c].result.err \in {"none", "ErrNoDocuments"} )
        => /\ call[c].result.outcome = "returned"
           /\ call[c].op \in AppendOps
           /\ call[c].result.value = <<"UserNotFound">>

----------------------------------------------------------------------------
(* C4 *)

\* C4: for a platform name outside the enumerated set, every operation (an
\* append with at least one entry) on an existing user whose request the
\* store answers returns the error InvalidPlatform, and no document ever
\* holds an entry under such a name.
C4_UnknownPlatformRejected ==
    /\ \A e \in DOMAIN db :
          \A k \in DOMAIN db[e].platformData \ EnumeratedKeys :
              /\ StoredLog(db, e, k, "contests") = <<>>
              /\ StoredLog(db, e, k, "submissions") = <<>>
    /\ \A c \in Callers :
          ( /\ Done(c)
            /\ ToLower(call[c].platform) \notin EnumeratedKeys
            /\ call[c].email \in DOMAIN db
            /\ HasEntries(call[c])
            /\ call[c].result.err = "none" )
          => /\ call[c].result.outcome = "returned"
             /\ call[c].op \in AppendOps
             /\ call[c].result.value = <<"InvalidPlatform">>

----------------------------------------------------------------------------
(* C5 *)

\* C5: the empty-log default.  For an existing user and a platform of the
\* enumerated set whose contests (submissions) log is empty, a
\* GetLastContest (GetLastSubmission) whose find the store answers returns
\* the zero-valued record; it neither panics nor ends the process.
C5_EmptyLogGivesZeroRecord ==
    \A c \in Callers :
        ( /\ Answered(c)
          /\ call[c].op \in {"GetLastContest", "GetLastSubmission"}
          /\ call[c].email \in DOMAIN db
          /\ call[c].platform \in Platforms
          /\ AddressedLog(db, call[c]) = <<>> )
        => /\ call[c].result.outcome = "returned"
           /\ call[c].result.value =
                 (IF call[c].op = "GetLastContest" THEN <<ContestData>>
                  ELSE <<SubmissionData>>)
           /\ alive

\* GetLastContest on the empty Codeforces contests log of a@x.com has
\* returned the zero record, the submissions log of that platform being
\* non-empty.
C5_Witness ==
    /\ Done("w1")
    /\ call["w1"].op = "GetLastContest"
    /\ call["w1"].email = "a@x.com"
    /\ call["w1"].platform = Codeforces
    /\ call["w1"].result = Returned(ContestData)
    /\ StoredLog(db, "a@x.com", ToLower(Codeforces), "contests") = <<>>
    /\ StoredLog(db, "a@x.com", ToLower(Codeforces), "submissions") # <<>>

----------------------------------------------------------------------------
(* C6 *)

\* C6: platform names are case-insensitive end to end.  For an existing
\* user and any letter-case spelling of an enumerated platform name, a read
\* whose find the store answers returns the content of that platform's
\* logs, the ones appends under any spelling write to.
C6_ReadsAreCaseInsensitive ==
    \A c \in Callers :
        ( /\ Answered(c)
          /\ call[c].op \in ReadOps
          /\ call[c].email \in DOMAIN db
          /\ ToLower(call[c].platform) \in EnumeratedKeys )
        => call[c].result = Returned(ExpectedRead(db, call[c]))

----------------------------------------------------------------------------
(* C7 *)

\* C7: the logs are append-only.  In every step every stored contests and
\* submissions log stays in place and its content before the step is a
\* prefix of its content after the step.
C7_Step ==
    \A e \in DOMAIN db :
        /\ e \in DOMAIN db'
        /\ \A k \in DOMAIN db[e].platformData :
              \A f \in {"contests", "submissions"} :
                  IsPrefix(StoredLog(db, e, k, f), StoredLog(db', e, k, f))

C7_LogsOnlyGrowAtTheTail == [][C7_Step]_vars

\* A log that grew twice: the Leetcode contests of a@x.com hold c3 followed
\* by c1, c2.
C7_Witness ==
    StoredLog(db, "a@x.com", ToLower(Leetcode), "contests")
        = <<MarshalContest(c3), MarshalContest(c1), MarshalContest(c2)>>

----------------------------------------------------------------------------
(* C8 *)

\* C8: an append is all-or-nothing and order-preserving.  Every step that
\* changes a log is the execution of one append call in flight for that
\* log, executed once (the call is in flight no longer), and adds exactly
\* the entries of that call, all of them, in the order supplied, after the
\* entries the log held; this also when the call then fails or its process
\* has exited.
C8_Step ==
    \A e \in DOMAIN db' :
        \A k \in DOMAIN db'[e].platformData :
            \A f \in {"contests", "submissions"} :
                StoredLog(db', e, k, f) # StoredLog(db, e, k, f)
                => \E c \in Callers :
                      /\ call[c].pc = "sent"
                      /\ call'[c].pc \in {"done", "lost"}
                      /\ call[c].op \in AppendOps
                      /\ call[c].email = e
                      /\ ToLower(call[c].platform) = k
                      /\ LogField(call[c].op) = f
                      /\ StoredLog(db', e, k, f)
                            = StoredLog(db, e, k, f) \o Block(call[c])

C8_AppendsAreAtomicBlocks == [][C8_Step]_vars

\* The call of w1 appended [c1, c2] and failed for want of the store's
\* acknowledgement, the process exited, and the store then executed the
\* append of [c3] that w2 had in flight: both blocks are in the log whole.
C8_Witness ==
    /\ Done("w1")
    /\ call["w1"].op = "AppendContestData"
    /\ call["w1"].result.outcome = "fatal"
    /\ call["w1"].newData = Slice(<<c1, c2>>)
    /\ call["w2"].pc = "lost"
    /\ call["w2"].newData = Slice(<<c3>>)
    /\ call["w1"].email = "a@x.com" /\ call["w2"].email = "a@x.com"
    /\ call["w1"].platform = Leetcode /\ call["w2"].platform = leetcodeLower
    /\ StoredLog(db, "a@x.com", ToLower(Leetcode), "contests")
          = <<MarshalContest(c1), MarshalContest(c2), MarshalContest(c3)>>

----------------------------------------------------------------------------
(* C9 *)

\* C9: an append reports success only when it was applied.  Whenever an
\* append of at least one entry to a platform of the enumerated set has
\* returned nil, the addressed user exists and the supplied entries are at
\* the tail of the addressed log.
C9_NilMeansApplied ==
    \A c \in Callers :
        ( /\ Done(c)
          /\ call[c].op \in AppendOps
          /\ call[c].platform \in Platforms
          /\ HasEntries(call[c])
          /\ call[c].result.outcome = "returned" )
        => /\ call[c].email \in DOMAIN db
           /\ EndsWith(AddressedLog(db, call[c]), Block(call[c]))

----------------------------------------------------------------------------
(* C10 *)

\* C10: no operation terminates the hosting process.  Every finished call
\* (on a platform of the enumerated set, an append with at least one entry)
\* has returned to its caller, whatever the store answered, and the process
\* is alive.
C10_ProcessSurvivesEveryCall ==
    \A c \in Callers :
        (Done(c) /\ call[c].platform \in Platforms /\ HasEntries(call[c]))
        => /\ call[c].result.outcome = "returned"
           /\ alive

----------------------------------------------------------------------------
(* C12 *)

\* C12: the handle is long-lived.  At every point after the open, whatever
\* time has passed, a finished GetLastContest or GetLastSubmission for an
\* existing user and a platform of the enumerated set, on a store that is
\* reachable (the driver reported no store error), has returned to its
\* caller: the handle's own context has not cut the call short.
C12_HandleDoesNotExpire ==
    \A c \in Callers :
        ( /\ Done(c)
          /\ call[c].op \in {"GetLastContest", "GetLastSubmission"}
          /\ call[c].email \in DOMAIN db
          /\ call[c].platform \in Platforms
          /\ call[c].result.err # "StoreError" )
        => /\ call[c].result.outcome = "returned"
           /\ call[c].result.err # "DeadlineExceeded"
           /\ alive

----------------------------------------------------------------------------
(* C15 *)

\* The collection with the logs of every platform of the user other than
\* the one stored under `key` emptied.
WithoutOtherPlatforms(coll, email, key) ==
    [coll EXCEPT ![email].platformData =
        [k \in DOMAIN @ |->
            IF k = key THEN @[k]
            ELSE [@[k] EXCEPT !.contests = <<>>, !.submissions = <<>>]]]

\* C15: reads are platform-scoped.  For an existing user and a platform p of
\* the enumerated set, a read whose find the store answers returns what the
\* logs of p alone determine: the same result as on a document in which the
\* logs of every other platform are empty, so no entry of another platform
\* is in it.
C15_ReadsArePlatformScoped ==
    \A c \in Callers :
        ( /\ Answered(c)
          /\ call[c].op \in ReadOps
          /\ call[c].email \in DOMAIN db
          /\ call[c].platform \in Platforms )
        => call[c].result =
              Returned(ExpectedRead(
                  WithoutOtherPlatforms(db, call[c].email,
                                        ToLower(call[c].platform)),
                  call[c]))

\* The contests c1, c2 were appended to Codeforces and c3 to Leetcode; the
\* full read of Leetcode has returned c3 alone.
C15_Witness ==
    /\ Done("w1")
    /\ call["w1"].op = "FindContestsandSubmissionsFromDB"
    /\ call["w1"].email = "a@x.com"
    /\ call["w1"].platform = Leetcode
    /\ call["w1"].result = Returned(<< <<c3>>, <<>> >>)
    /\ StoredLog(db, "a@x.com", ToLower(Codeforces), "contests")
          = <<MarshalContest(c1), MarshalContest(c2)>>

----------------------------------------------------------------------------
(* C16 *)

\* C16: the frame of an append.  The step in which the store executes an
\* AppendContestData (AppendSubmissionData) changes at most the contests
\* (submissions) log stored under the lower-cased platform name in the
\* document of the addressed email: the other fields of that sub-record
\* (the other log, handle, totalsolved, ranking), every other sub-record,
\* the profile fields and every other document are as before, and no
\* document is added or removed.
C16_Step ==
    \A c \in Callers :
        ( /\ call[c].pc = "sent"
          /\ call'[c].pc \in {"done", "lost"}
          /\ call[c].op \in AppendOps )
        => /\ DOMAIN db' = DOMAIN db
           /\ \A e \in DOMAIN db \ {call[c].email} : db'[e] = db[e]
           /\ \A e \in DOMAIN db \cap {call[c].email} :
                 LET key == ToLower(call[c].platform)
                     pd  == db[e].platformData
                     pd2 == db'[e].platformData
                 IN  /\ DOMAIN db'[e] = DOMAIN db[e]
                     /\ \A f \in DOMAIN db[e] \ {"platformData"} :
                           db'[e][f] = db[e][f]
                     /\ DOMAIN pd2 \subseteq DOMAIN pd \cup {key}
                     /\ \A k \in DOMAIN pd \ {key} :
                           k \in DOMAIN pd2 /\ pd2[k] = pd[k]
                     /\ \A k \in DOMAIN pd \cap {key} :
                           /\ k \in DOMAIN pd2
                           /\ DOMAIN pd2[k] \subseteq
                                 DOMAIN pd[k] \cup {LogField(call[c].op)}
                           /\ \A y \in DOMAIN pd[k] \ {LogField(call[c].op)} :
                                 y \in DOMAIN pd2[k] /\ pd2[k][y] = pd[k][y]

C16_AppendFrame == [][C16_Step]_vars

\* Both logs of the Leetcode sub-record of a@x.com were appended to, the
\* submissions by w1 and the contests by w2; the handle of the sub-record
\* and the document of b@x.com are as registration left them.
C16_Witness ==
    /\ Answered("w1") /\ Answered("w2")
    /\ call["w1"].op = "AppendSubmissionData"
    /\ call["w2"].op = "AppendContestData"
    /\ db["a@x.com"].platformData[ToLower(Leetcode)]
          = [NewUser("a@x.com").platformData[ToLower(Leetcode)] EXCEPT
                !.submissions = <<MarshalSubmission(s1), MarshalSubmission(s2)>>,
                !.contests = <<MarshalContest(c3)>>]
    /\ db["b@x.com"] = NewUser("b@x.com")

----------------------------------------------------------------------------
(* C17 *)

\* C17: appending nothing is harmless.  For an existing user and a platform
\* of the enumerated set, an AppendContestData or AppendSubmissionData that
\* is given a sequence without entries (empty or nil), on a store that is
\* reachable, returns to its caller, the process lives on, and every
\* document is exactly as before.
C17_Step ==
    \A c \in Callers :
        ( /\ Ends(c)
          /\ call[c].op \in AppendOps
          /\ Len(call[c].newData.elems) = 0
          /\ call[c].email \in DOMAIN db
          /\ call[c].platform \in Platforms
          /\ call'[c].result.err # "StoreError" )
        => /\ call'[c].result.outcome = "returned"
           /\ alive'
           /\ db' = db

C17_EmptyAppendIsHarmless == [][C17_Step]_vars

----------------------------------------------------------------------------
(* C19 *)

\* C19: reads never write.  The step in which a GetLastContest, a
\* GetLastSubmission or a FindContestsandSubmissionsFromDB ends, whether it
\* returns, ends the process or panics, leaves every document of the
\* collection as it was.
C19_Step ==
    \A c \in Callers :
        (Ends(c) /\ call[c].op \in ReadOps) => db' = db

C19_ReadsNeverWrite == [][C19_Step]_vars

\* Between the appends of the other caller: w2 appended [c3] to the
\* Leetcode contests of a@x.com, w1 has read c3 with GetLastContest, and
\* the log still holds c3.
C19_Witness ==
    /\ Done("w1") /\ Done("w2")
    /\ call["w1"].op = "GetLastContest"
    /\ call["w1"].result = Returned(c3)
    /\ call["w2"].op = "AppendContestData"
    /\ call["w2"].newData = Slice(<<c3>>)
    /\ StoredLog(db, "a@x.com", ToLower(Leetcode), "contests")
          = <<MarshalContest(c3)>>

----------------------------------------------------------------------------
(* C11 *)

\* C11: every store operation has a bounded wait.  A call that is waiting
\* on a store that has stopped answering eventually completes.
C11_BoundedWait ==
    \A c \in Callers :
        (call[c].pc = "sent" /\ storeSilent) ~> (call[c].pc = "done")

----------------------------------------------------------------------------
(* C13 *)

\* C13: the handle is released on every exit path.  Once the process has
\* ended, and once OpenDatabaseConnection has failed, no client is left
\* connected and no context is left with its cancel function uncalled.
C13_ReleasedOnEveryExitPath ==
    (~alive \/ conn.status = "failed")
    => (conn.client # "connected" /\ conn.ctx # "live")

----------------------------------------------------------------------------
(* C14 *)

\* A ContestID written in plain decimal digits, and one that is no number:
\* the empty string, or one that holds a letter other than the exponent
\* mark.
PlainNumber(id) == Len(id) > 0 /\ \A k \in 1..Len(id) : IsDigit(id[k])

NoNumber(id) ==
    \/ id = <<>>
    \/ \E k \in 1..Len(id) :
          \E i \in 1..Len(LowerLetters) :
              LowerLetters[i] = ToLowerLetter(id[k]) /\ LowerLetters[i] # "e"

\* C14: the contest id is parsed at the boundary.  When
\* formatContestSchemaToGRPCContest has run on contests whose ContestIDs are
\* all plain numbers, it has returned one record per contest, whose
\* ContestId is the number the string writes; when some ContestID is no
\* number, the outcome is the error MalformedRecord: not a process abort,
\* and no record.
C14_ContestIdParsedAtBoundary ==
    (grpc.pc = "done" /\ grpc.fn = "formatContestSchemaToGRPCContest")
    => LET contests == grpc.contestDataforDB
       IN  /\ (\A i \in 1..Len(contests) : PlainNumber(contests[i].ContestID))
              => /\ grpc.outcome = "returned"
                 /\ Len(grpc.out.Contests) = Len(contests)
                 /\ \A i \in 1..Len(contests) :
                       grpc.heap[grpc.out.Contests[i]].ContestId
                          = Float(FALSE, DecimalValue(contests[i].ContestID), 0)
           /\ (\E i \in 1..Len(contests) : NoNumber(contests[i].ContestID))
              => grpc.outcome = "MalformedRecord"

----------------------------------------------------------------------------
(* C18 *)

\* The two formatters, the input of the call in progress and the list of
\* addresses a finished call returned.
Formatters ==
    {"formatSubmissionSchemaToGRPCSubmission", "formatContestSchemaToGRPCContest"}

FormatterInput(g) ==
    IF g.fn = "formatSubmissionSchemaToGRPCSubmission"
    THEN g.submissionDataforDB ELSE g.contestDataforDB

FormatterOutput(g) ==
    IF g.fn = "formatSubmissionSchemaToGRPCSubmission"
    THEN g.out.Submissions ELSE g.out.Contests

\* The response record of one stored record, field by field.
ResponseRecord(fn, rec) ==
    IF fn = "formatSubmissionSchemaToGRPCSubmission"
    THEN [Date          |-> rec.SubmissionDate,
          Language      |-> rec.SubmissionLanguage,
          ProblemStatus |-> rec.SubmissionStatus,
          ProblemTitle  |-> rec.ProblemName,
          ProblemLink   |-> rec.ProblemUrl,
          CodeLink      |-> rec.CodeUrl]
    ELSE [ContestName |-> rec.ContestName,
          Rank        |-> rec.Rank,
          Rating      |-> rec.Rating,
          ContestId   |-> ParseFloat(rec.ContestID).value,
          ContestDate |-> rec.ContestDate]

\* The step of a formatter left the input as it was and produced one
\* record of its own per input record, in the input's order.
SequencePreserved ==
    LET input  == FormatterInput(grpc)
        output == FormatterOutput(grpc')
    IN  /\ grpc'.submissionDataforDB = grpc.submissionDataforDB
        /\ grpc'.contestDataforDB = grpc.contestDataforDB
        /\ Len(output) = Len(input)
        /\ \A i \in 1..Len(input) :
              /\ output[i] \in 1..Len(grpc'.heap)
              /\ grpc'.heap[output[i]] = ResponseRecord(grpc.fn, input[i])
        /\ \A i, j \in 1..Len(output) : i # j => output[i] # output[j]

\* C18 as stated: for every input sequence each of the two formatters
\* returns a sequence of the same length whose i-th element is the
\* field-by-field mapping of the i-th input record, each element a record
\* of its own, the input unmodified.
C18_OriginalStep ==
    (grpc.pc = "called" /\ grpc'.pc = "done" /\ grpc.fn \in Formatters)
    => (grpc'.outcome = "returned" /\ SequencePreserved)

C18_Step ==
    ( /\ grpc.pc = "called" /\ grpc'.pc = "done"
      /\ grpc.fn \in Formatters
      /\ grpc'.outcome = "returned" )
    => SequencePreserved

====
